---- MODULE Spec2Model ----
(***************************************************************************)
(* gnucash-tax: ISA allowance report (gnucash_tax_gb_isa.py).              *)
(*                                                                         *)
(* Strings are sequences of one-character strings, so that regular         *)
(* expression matching, formatting and sorting are computed character by   *)
(* character.  Money is an exact integer number of 1/100 (the value        *)
(* numerators of the ledger, the Fractions of the script).                 *)
(***************************************************************************)
EXTENDS Integers, Sequences, FiniteSets, TLC

VARIABLES
    accounts,   \* the book's account tree: account id -> account record
    txns,       \* the book's transactions, in posting order
    at_date,    \* the as-of cutoff date
    pc,         \* position in process_file / review_isa_accounts
    session,    \* the ledger session: status and the calls made on it
    isa,        \* review_isa_accounts: accounts, in insertion order
    deposits,   \* review_isa_accounts: every Deposit appended so far
    origin,     \* for each element of deposits, the index in txns of the
                \* transaction whose loop iteration (line 145) appended it
    acct_i,     \* review_isa_accounts: position of the loop over accounts
    years,      \* review_isa_accounts: years (label -> reviewed year)
    outcome,    \* how process_file left: "none", "result", "error"
    label       \* the value returned by a stand-alone tax_year call

vars == <<accounts, txns, at_date, pc, session, isa, acct_i, deposits, origin,
          years, outcome, label>>

-----------------------------------------------------------------------------
(* Characters and strings *)

\* The characters used, in code point order
Alphabet ==
    <<" ", "&", "/", "0", "1", "2", "3", "4", "5", "6", "7", "8", "9", ":",
      "A", "B", "C", "D", "E", "F", "G", "H", "I", "J", "K", "L", "M",
      "N", "O", "P", "Q", "R", "S", "T", "U", "V", "W", "X", "Y", "Z",
      "a", "b", "c", "d", "e", "f", "g", "h", "i", "j", "k", "l", "m",
      "n", "o", "p", "q", "r", "s", "t", "u", "v", "w", "x", "y", "z">>

Ord(c) == CHOOSE i \in 1..Len(Alphabet) : Alphabet[i] = c

\* s < t for Python strings (lexicographic by code point)
RECURSIVE StrLess(_, _)
StrLess(s, t) ==
    IF t = <<>> THEN FALSE
    ELSE IF s = <<>> THEN TRUE
    ELSE IF Head(s) = Head(t) THEN StrLess(Tail(s), Tail(t))
    ELSE Ord(Head(s)) < Ord(Head(t))

\* s.startswith(lit, i - 1): lit occurs in s at position i
LitAt(s, i, lit) ==
    /\ i + Len(lit) - 1 <= Len(s)
    /\ \A k \in 1..Len(lit) : s[i + k - 1] = lit[k]

DigitChars == <<"0", "1", "2", "3", "4", "5", "6", "7", "8", "9">>

\* the decimal digits of n >= 0
RECURSIVE ToDigits(_)
ToDigits(n) ==
    IF n < 10 THEN <<DigitChars[n + 1]>>
    ELSE ToDigits(n \div 10) \o <<DigitChars[(n % 10) + 1]>>

\* f"{n:0{w}d}"
ZeroPad(n, w) ==
    LET d == ToDigits(n)
    IN  IF Len(d) >= w THEN d ELSE [i \in 1..(w - Len(d)) |-> "0"] \o d

-----------------------------------------------------------------------------
(* Dates *)

Date(y, m, d) == [year |-> y, month |-> m, day |-> d]

\* date2 > date1 for datetime.date
DateLess(d1, d2) ==
    \/ d1.year < d2.year
    \/ d1.year = d2.year /\ d1.month < d2.month
    \/ d1.year = d2.year /\ d1.month = d2.month /\ d1.day < d2.day

IsLeap(y) == (y % 4 = 0 /\ y % 100 # 0) \/ y % 400 = 0

DaysInMonth(y, m) ==
    IF m = 2 THEN (IF IsLeap(y) THEN 29 ELSE 28)
    ELSE IF m \in {4, 6, 9, 11} THEN 30 ELSE 31

\* the values datetime.date can take within a set of years
CalendarDates(ys) ==
    {Date(y, m, d) : y \in ys, m \in 1..12, d \in 1..31} \cap
    {x \in [year : ys, month : 1..12, day : 1..31] :
        x.day <= DaysInMonth(x.year, x.month)}

-----------------------------------------------------------------------------
(* tax_year *)

tax_year_day_after(date) ==
    LET year == IF date.month = 4 /\ date.day > 6 THEN date.year
                ELSE IF date.month > 4 THEN date.year
                ELSE date.year - 1
    IN  ZeroPad(year, 4) \o <<"/">> \o ZeroPad((year + 1) % 100, 2)

tax_year(date) ==
    LET year == IF date.month = 4 /\ date.day >= 6 THEN date.year
                ELSE IF date.month > 4 THEN date.year
                ELSE date.year - 1
    IN  ZeroPad(year, 4) \o <<"/">> \o ZeroPad((year + 1) % 100, 2)

-----------------------------------------------------------------------------
(* Constants of the script *)

CLOSED_ == <<"C", "l", "o", "s", "e", "d", " ">>
CASH == <<"C", "a", "s", "h">>
STOCKS_AND_SHARES == <<"S", "t", "o", "c", "k", "s", " ", "&", " ", "S", "h", "a", "r", "e", "s">>
_ISA == <<" ", "I", "S", "A">>

\* re.compile(r"(Closed )?(k1|k2|...) ISA ?").match(s) is not None, for the
\* alternatives kinds; the optional trailing space never decides a match
ReMatch(kinds, s) ==
    \E start \in {1} \cup (IF LitAt(s, 1, CLOSED_) THEN {1 + Len(CLOSED_)} ELSE {}) :
        \E k \in kinds :
            LitAt(s, start, k) /\ LitAt(s, start + Len(k), _ISA)

ACCOUNT_DESC_ISA_RE(s) == ReMatch({CASH, STOCKS_AND_SHARES}, s)
ACCOUNT_DESC_CASH_ISA_RE(s) == ReMatch({CASH}, s)
ACCOUNT_DESC_STOCKS_ISA_RE(s) == ReMatch({STOCKS_AND_SHARES}, s)

Allowance(c, s, t) == [cash |-> c, stocks |-> s, total |-> t]

ALLOWANCES ==
    <<"1", "9", "9", "9", "/", "0", "0">> :> Allowance(300000, 700000, 700000) @@
    <<"2", "0", "0", "0", "/", "0", "1">> :> Allowance(300000, 700000, 700000) @@
    <<"2", "0", "0", "1", "/", "0", "2">> :> Allowance(300000, 700000, 700000) @@
    <<"2", "0", "0", "2", "/", "0", "3">> :> Allowance(300000, 700000, 700000) @@
    <<"2", "0", "0", "3", "/", "0", "4">> :> Allowance(300000, 700000, 700000) @@
    <<"2", "0", "0", "4", "/", "0", "5">> :> Allowance(300000, 700000, 700000) @@
    <<"2", "0", "0", "5", "/", "0", "6">> :> Allowance(300000, 700000, 700000) @@
    <<"2", "0", "0", "6", "/", "0", "7">> :> Allowance(300000, 700000, 700000) @@
    <<"2", "0", "0", "7", "/", "0", "8">> :> Allowance(300000, 700000, 700000) @@
    <<"2", "0", "0", "8", "/", "0", "9">> :> Allowance(360000, 720000, 720000) @@
    <<"2", "0", "0", "9", "/", "1", "0">> :> Allowance(360000, 720000, 720000) @@
    <<"2", "0", "1", "0", "/", "1", "1">> :> Allowance(510000, 1020000, 1020000) @@
    <<"2", "0", "1", "1", "/", "1", "2">> :> Allowance(534000, 1068000, 1068000) @@
    <<"2", "0", "1", "2", "/", "1", "3">> :> Allowance(564000, 1128000, 1128000) @@
    <<"2", "0", "1", "3", "/", "1", "4">> :> Allowance(576000, 1152000, 1152000) @@
    <<"2", "0", "1", "4", "/", "1", "5">> :> Allowance(1500000, 1500000, 1500000) @@
    <<"2", "0", "1", "5", "/", "1", "6">> :> Allowance(1524000, 1524000, 1524000) @@
    <<"2", "0", "1", "6", "/", "1", "7">> :> Allowance(1524000, 1524000, 1524000) @@
    <<"2", "0", "1", "7", "/", "1", "8">> :> Allowance(2000000, 2000000, 2000000) @@
    <<"2", "0", "1", "8", "/", "1", "9">> :> Allowance(2000000, 2000000, 2000000) @@
    <<"2", "0", "1", "9", "/", "2", "0">> :> Allowance(2000000, 2000000, 2000000) @@
    <<"2", "0", "2", "0", "/", "2", "1">> :> Allowance(2000000, 2000000, 2000000) @@
    <<"2", "0", "2", "1", "/", "2", "2">> :> Allowance(2000000, 2000000, 2000000) @@
    <<"2", "0", "2", "2", "/", "2", "3">> :> Allowance(2000000, 2000000, 2000000) @@
    <<"2", "0", "2", "3", "/", "2", "4">> :> Allowance(2000000, 2000000, 2000000) @@
    <<"2", "0", "2", "4", "/", "2", "5">> :> Allowance(2000000, 2000000, 2000000)

\* isa_account_type values, and the "total" key of contributions
T_CASH == <<"c", "a", "s", "h">>
T_STOCKS == <<"s", "t", "o", "c", "k", "s">>
T_NONE == <<"N", "o", "n", "e">>
T_TOTAL == <<"t", "o", "t", "a", "l">>

INTEREST == <<"I", "n", "t", "e", "r", "e", "s", "t">>
DIVIDENDS == <<"D", "i", "v", "i", "d", "e", "n", "d", "s">>

-----------------------------------------------------------------------------
(* The book: the account tree and the transactions of the session *)

Account(name, description, commodity, type, parent, children) ==
    [name |-> name, description |-> description, commodity |-> commodity,
     type |-> type, parent |-> parent, children |-> children]

\* An account tree: two ISA accounts (one cash, one closed stocks & shares),
\* a "Dividends" account under the cash ISA whose type tag is dividends_type,
\* a current account, an account described as an ISA but not in GBP, and
\* income accounts.  Accounts are named by their GUID; children are in
\* get_children_sorted order; the root has no commodity and no parent.
AccountTree(dividends_type, shares_description) ==
    [g \in {"root", "assets", "saver", "dividends", "shares", "current",
            "dollars", "income", "interest", "bonus"} |->
        CASE g = "root" ->
                Account(<<"R", "o", "o", "t", " ", "A", "c", "c", "o", "u", "n", "t">>, <<>>, "none", "ROOT", "none", <<"assets", "income">>)
          [] g = "assets" ->
                Account(<<"A", "s", "s", "e", "t", "s">>, <<>>, "GBP", "ASSET", "root",
                        <<"current", "dollars", "saver", "shares">>)
          [] g = "saver" ->
                Account(<<"S", "a", "v", "e", "r">>, <<"C", "a", "s", "h", " ", "I", "S", "A">>, "GBP", "BANK", "assets", <<"dividends">>)
          [] g = "dividends" ->
                Account(DIVIDENDS, <<>>, "GBP", dividends_type, "saver", <<>>)
          [] g = "shares" ->
                Account(<<"S", "h", "a", "r", "e", "s">>, shares_description, "GBP", "BANK", "assets", <<>>)
          [] g = "current" ->
                Account(<<"C", "u", "r", "r", "e", "n", "t">>, <<"C", "u", "r", "r", "e", "n", "t", " ", "a", "c", "c", "o", "u", "n", "t">>, "GBP", "BANK", "assets", <<>>)
          [] g = "dollars" ->
                Account(<<"D", "o", "l", "l", "a", "r", "s">>, <<"C", "a", "s", "h", " ", "I", "S", "A">>, "USD", "BANK", "assets", <<>>)
          [] g = "income" ->
                Account(<<"I", "n", "c", "o", "m", "e">>, <<>>, "GBP", "INCOME", "root", <<"interest">>)
          [] g = "interest" ->
                Account(INTEREST, <<>>, "GBP", "INCOME", "income", <<"bonus">>)
          [] g = "bonus" ->
                Account(<<"B", "o", "n", "u", "s">>, <<>>, "GBP", "INCOME", "interest", <<>>)]

Split(account, value) == [account |-> account, value |-> value]
Transaction(date, splits) == [date |-> date, splits |-> splits]

\* account.GetSplitList(): one entry per split of the book on the account,
\* each naming its parent transaction (an index in txns)
RECURSIVE GetSplitList(_, _)
GetSplitList(account, k) ==
    IF k > Len(txns) THEN <<>>
    ELSE [i \in 1..Cardinality({j \in 1..Len(txns[k].splits) :
                                    txns[k].splits[j].account = account}) |-> k]
         \o GetSplitList(account, k + 1)

-----------------------------------------------------------------------------
(* Account classification *)

\* ":".join(path)
RECURSIVE path2str(_)
path2str(path) ==
    IF path = <<>> THEN <<>>
    ELSE IF Len(path) = 1 THEN path[1]
    ELSE path[1] \o <<":">> \o path2str(Tail(path))

\* walk_accounts: breadth first, (path, account) pairs in yield order.  The
\* rest of the queue is bound by a quantifier so that it is evaluated once
\* (TLC evaluates an operator's argument anew at each use inside ENABLED).
RECURSIVE walk_queue(_)
walk_queue(queue) ==
    IF queue = <<>> THEN <<>>
    ELSE LET path == Head(queue).path
             account == Head(queue).account
             children == accounts[account].children
         IN  <<Head(queue)>> \o
             CHOOSE rest \in
                 {walk_queue(q) :
                    q \in {Tail(queue) \o
                           [i \in 1..Len(children) |->
                              [path |-> path \o <<accounts[children[i]].name>>,
                               account |-> children[i]]]}} : TRUE

walk_accounts(top_account) == walk_queue(<<[path |-> <<>>, account |-> top_account]>>)

is_isa_account(account) ==
    IF accounts[account].commodity = "GBP"
    THEN ACCOUNT_DESC_ISA_RE(accounts[account].description)
    ELSE FALSE

\* isa_account_type with patterns that lack the optional "Closed " prefix
isa_account_type_open_only(account) ==
    IF LitAt(accounts[account].description, 1, CASH \o _ISA) THEN T_CASH
    ELSE IF LitAt(accounts[account].description, 1, STOCKS_AND_SHARES \o _ISA)
         THEN T_STOCKS
    ELSE T_NONE

isa_account_type(account) ==
    IF ACCOUNT_DESC_CASH_ISA_RE(accounts[account].description) THEN T_CASH
    ELSE IF ACCOUNT_DESC_STOCKS_ISA_RE(accounts[account].description) THEN T_STOCKS
    ELSE T_NONE

\* the names of an account's ancestors (lines 118-121)
RECURSIVE parent_names(_)
parent_names(parent) ==
    IF parent = "none" THEN {}
    ELSE {accounts[parent].name} \cup parent_names(accounts[parent].parent)

\* is_contribution_account without the test of lines 109-110
is_contribution_account_isa(account) ==
    IF accounts[account].type \in {"STOCK", "MUTUAL"} THEN FALSE
    ELSE IF accounts[account].type = "INCOME"
            /\ ({accounts[account].name} \cup parent_names(accounts[account].parent))
                   \cap {INTEREST, DIVIDENDS} # {}
         THEN FALSE
    ELSE TRUE

\* is_contribution_account with "Dividends" missing from the set of line 123
is_contribution_account_interest(account) ==
    IF is_isa_account(account) THEN FALSE
    ELSE IF accounts[account].type \in {"STOCK", "MUTUAL"} THEN FALSE
    ELSE IF accounts[account].type = "INCOME"
            /\ ({accounts[account].name} \cup parent_names(accounts[account].parent))
                   \cap {INTEREST} # {}
         THEN FALSE
    ELSE TRUE

is_contribution_account(account) ==
    IF is_isa_account(account) THEN FALSE
    ELSE IF accounts[account].type \in {"STOCK", "MUTUAL"} THEN FALSE
    ELSE IF accounts[account].type = "INCOME"
            /\ ({accounts[account].name} \cup parent_names(accounts[account].parent))
                   \cap {INTEREST, DIVIDENDS} # {}
         THEN FALSE
    ELSE TRUE

\* accounts[tuple(path)] = account on a dict kept in insertion order
DictSet(dict, path, account) ==
    IF \E i \in 1..Len(dict) : dict[i].path = path
    THEN [i \in 1..Len(dict) |->
            IF dict[i].path = path THEN [path |-> path, account |-> account]
            ELSE dict[i]]
    ELSE Append(dict, [path |-> path, account |-> account])

\* lines 130-137: the loop over the walk, from position i with accounts = dict
RECURSIVE isa_accounts_from(_, _, _)
isa_accounts_from(walk, i, dict) ==
    IF i > Len(walk) THEN dict
    ELSE isa_accounts_from(walk, i + 1,
            IF is_isa_account(walk[i].account)
            THEN DictSet(dict, walk[i].path, walk[i].account)
            ELSE dict)

isa_accounts_of(walk) == isa_accounts_from(walk, 1, <<>>)

isa_accounts ==
    CHOOSE dict \in {isa_accounts_of(walk) : walk \in {walk_accounts("root")}} : TRUE

-----------------------------------------------------------------------------
(* Deposit extraction *)

Deposit(year, date, account, amount, type) ==
    [year |-> year, date |-> date, account |-> account, amount |-> amount,
     type |-> type]

\* lines 150-156: the sum of the positive values of the splits on account
RECURSIVE credited(_, _)
credited(splits, account) ==
    IF splits = <<>> THEN 0
    ELSE (IF Head(splits).account = account /\ Head(splits).value > 0
          THEN Head(splits).value ELSE 0)
         + credited(Tail(splits), account)

\* lines 151-159: some split on another account, which is a contribution
\* account, has a negative value
contributed(splits, account) ==
    \E j \in 1..Len(splits) :
        /\ splits[j].account # account
        /\ is_contribution_account(splits[j].account)
        /\ splits[j].value < 0

\* isa_account_deposits as in gnucash-tax-gb-isa.py, which has no cutoff
isa_account_deposits_no_cutoff(name, account, at) ==
    LET emits(k) == /\ credited(txns[k].splits, account) # 0
                    /\ contributed(txns[k].splits, account)
        made == SelectSeq(GetSplitList(account, 1), emits)
    IN  [i \in 1..Len(made) |->
            [txn |-> made[i],
             deposit |-> Deposit(tax_year(txns[made[i]].date), txns[made[i]].date,
                                 name, credited(txns[made[i]].splits, account),
                                 isa_account_type(account))]]

\* isa_account_deposits with line 161 testing the amount alone
isa_account_deposits_amount_only(name, account, at) ==
    LET emits(k) == /\ ~DateLess(at, txns[k].date)
                    /\ credited(txns[k].splits, account) # 0
        made == SelectSeq(GetSplitList(account, 1), emits)
    IN  [i \in 1..Len(made) |->
            [txn |-> made[i],
             deposit |-> Deposit(tax_year(txns[made[i]].date), txns[made[i]].date,
                                 name, credited(txns[made[i]].splits, account),
                                 isa_account_type(account))]]

\* The Deposits of one ISA account, in the order the loop of line 145
\* appends them, each with the index of the transaction it was made from.
isa_account_deposits(name, account, at) ==
    LET emits(k) == /\ ~DateLess(at, txns[k].date)
                    /\ credited(txns[k].splits, account) # 0
                    /\ contributed(txns[k].splits, account)
        made == SelectSeq(GetSplitList(account, 1), emits)
    IN  [i \in 1..Len(made) |->
            [txn |-> made[i],
             deposit |-> Deposit(tax_year(txns[made[i]].date), txns[made[i]].date,
                                 name, credited(txns[made[i]].splits, account),
                                 isa_account_type(account))]]

-----------------------------------------------------------------------------
(* Review of one tax year *)

\* d1 < d2 for Deposit tuples (year, date, account, amount, type)
DepositLess(d1, d2) ==
    IF d1.year # d2.year THEN StrLess(d1.year, d2.year)
    ELSE IF d1.date # d2.date THEN DateLess(d1.date, d2.date)
    ELSE IF d1.account # d2.account THEN StrLess(d1.account, d2.account)
    ELSE IF d1.amount # d2.amount THEN d1.amount < d2.amount
    ELSE StrLess(d1.type, d2.type)

\* sorted(deposits): a stable sort
RECURSIVE sorted(_)
sorted(s) ==
    IF s = <<>> THEN <<>>
    ELSE LET rest == sorted(SubSeq(s, 1, Len(s) - 1))
             x == s[Len(s)]
             n == Cardinality({i \in 1..Len(rest) : ~DepositLess(x, rest[i])})
         IN  SubSeq(rest, 1, n) \o <<x>> \o SubSeq(rest, n + 1, Len(rest))

\* sorted(ALLOWANCES.keys())[0]
earliest_year ==
    CHOOSE k \in DOMAIN ALLOWANCES :
        \A j \in DOMAIN ALLOWANCES : j = k \/ StrLess(k, j)

\* sorted(ALLOWANCES.keys())[-1]
latest_year ==
    CHOOSE k \in DOMAIN ALLOWANCES :
        \A j \in DOMAIN ALLOWANCES : j = k \/ StrLess(j, k)

\* contributions[key] after the loop of lines 174-177
RECURSIVE contributions(_, _)
contributions(deps, key) ==
    IF deps = <<>> THEN 0
    ELSE (IF Head(deps).type = key THEN Head(deps).amount ELSE 0)
         + (IF key = T_TOTAL THEN Head(deps).amount ELSE 0)
         + contributions(Tail(deps), key)

allowance_of(allowance, key) ==
    IF key = T_CASH THEN allowance.cash
    ELSE IF key = T_STOCKS THEN allowance.stocks
    ELSE allowance.total

review_isa_year(year, deps) ==
    LET allowance == IF year \notin DOMAIN ALLOWANCES
                     THEN ALLOWANCES[latest_year] ELSE ALLOWANCES[year]
        ordered == sorted(deps)
        row(key, type_name) ==
            [type_name |-> type_name,
             allowance |-> allowance_of(allowance, key),
             contributions |-> contributions(ordered, key),
             remaining |-> allowance_of(allowance, key) - contributions(ordered, key)]
    IN  [txns |-> [i \in 1..Len(ordered) |->
                      [date |-> ordered[i].date, amount |-> ordered[i].amount,
                       account |-> ordered[i].account]],
         allowances |-> <<row(T_CASH, "Cash"), row(T_STOCKS, "S&S"),
                          row(T_TOTAL, "Total")>>]

-----------------------------------------------------------------------------
(* Bounds of the books explored *)

\* splits in the transaction of a single-transaction book
MaxSplits == 3
\* transactions in a book of two-leg transactions
MaxTxns == 2

\* either side of the 5/6 April boundary, and a tax year with no allowance
TxnDates == {Date(2024, 4, 5), Date(2024, 4, 6), Date(2025, 4, 6)}
\* cutoffs of the single-transaction books: the transaction is dated before,
\* on or after them
ExtractCutoffs == {Date(2024, 4, 5), Date(2024, 4, 6)}
SplitAccounts == {"saver", "shares", "current", "dividends"}
SplitValues == {-100, 50}
DividendsTypes == {"INCOME", "BANK", "STOCK"}
SharesDescriptions ==
    {<<"C", "l", "o", "s", "e", "d", " ", "S", "t", "o", "c", "k", "s", " ", "&", " ", "S", "h", "a", "r", "e", "s", " ", "I", "S", "A", " ">>,
     <<"S", "t", "o", "c", "k", "s", " ", "&", " ", "S", "h", "a", "r", "e", "s", " ", "I", "S", "A">>,
     <<"S", "h", "a", "r", "e", "s", " ", "I", "S", "A">>}
TaxYearYears == {1, 999, 1998, 1999, 2000, 2023, 2024, 2025, 2099, 9999}

NoSession == [status |-> "none", ends |-> 0, destroys |-> 0]
NoYears == [y \in {} |-> <<>>]

\* every transaction of up to MaxSplits splits
SplitSeqs ==
    UNION {[1..n -> [account : SplitAccounts, value : SplitValues]] : n \in 1..MaxSplits}

\* a credit of an ISA account with one offsetting debit
TwoLegTxns ==
    {t \in {Transaction(d, <<Split(a, v), Split(s, 0 - v)>>) :
                d \in TxnDates, a \in {"saver", "shares"},
                v \in {x \in SplitValues : x > 0} \cup
                      {0 - x : x \in {y \in SplitValues : y < 0}},
                s \in {"current", "saver", "shares"}} :
        t.splits[1].account # t.splits[2].account}

\* books of up to MaxTxns such transactions, in date order
TwoLegBooks ==
    {b \in UNION {[1..n -> TwoLegTxns] : n \in 0..MaxTxns} :
        \A i \in 1..(Len(b) - 1) : ~DateLess(b[i + 1].date, b[i].date)}

-----------------------------------------------------------------------------
(* process_file and review_isa_accounts, step by step *)

Start ==
    /\ pc = "start"
    /\ session = NoSession
    /\ isa = <<>>
    /\ acct_i = 1
    /\ deposits = <<>>
    /\ origin = <<>>
    /\ years = NoYears
    /\ outcome = "none"
    /\ label = <<>>

\* a book of one transaction of any shape
Init ==
    /\ accounts \in {AccountTree(t, <<"C", "l", "o", "s", "e", "d", " ", "S", "t", "o", "c", "k", "s", " ", "&", " ", "S", "h", "a", "r", "e", "s", " ", "I", "S", "A", " ">>) : t \in DividendsTypes}
    /\ txns \in {<<Transaction(d, s)>> : d \in TxnDates, s \in SplitSeqs}
    /\ at_date \in ExtractCutoffs
    /\ Start

\* a book of several two-leg transactions
ReviewInit ==
    /\ accounts \in {AccountTree("INCOME", d) : d \in SharesDescriptions}
    /\ txns \in TwoLegBooks
    /\ at_date \in TxnDates
    /\ Start

\* line 223: gnucash.Session(filename, mode=SESSION_READ_ONLY) returns
OpenSession ==
    /\ pc = "start"
    /\ session' = [session EXCEPT !.status = "open"]
    /\ pc' = "accounts"
    /\ UNCHANGED <<accounts, txns, at_date, isa, acct_i, deposits, origin,
                   years, outcome, label>>

\* line 223: gnucash.Session raises; the try block is never entered
OpenFails ==
    /\ pc = "start"
    /\ pc' = "done"
    /\ outcome' = "error"
    /\ UNCHANGED <<accounts, txns, at_date, session, isa, acct_i, deposits,
                   origin, years, label>>

\* lines 192-197
IsaAccounts ==
    /\ pc = "accounts"
    /\ isa' = isa_accounts
    /\ acct_i' = 1
    /\ pc' = "loop"
    /\ UNCHANGED <<accounts, txns, at_date, session, deposits, origin, years,
                   outcome, label>>

\* lines 199-201: one iteration of the loop over accounts.items()
IsaAccountDeposits ==
    /\ pc = "loop"
    /\ acct_i <= Len(isa)
    /\ LET made == isa_account_deposits(path2str(isa[acct_i].path),
                                        isa[acct_i].account, at_date)
       IN  /\ deposits' = deposits \o [i \in 1..Len(made) |-> made[i].deposit]
           /\ origin' = origin \o [i \in 1..Len(made) |-> made[i].txn]
    /\ acct_i' = acct_i + 1
    /\ UNCHANGED <<accounts, txns, at_date, pc, session, isa, years, outcome,
                   label>>

\* deposits[year]
deposits_of(year) == SelectSeq(deposits, LAMBDA d : d.year = year)

\* line 203 as in gnucash-tax-gb-isa.py: the years of the deposits alone
review_years_of_deposits == {deposits[i].year : i \in 1..Len(deposits)}

\* line 203: the years to review
review_years ==
    {deposits[i].year : i \in 1..Len(deposits)} \cup {tax_year(at_date)}

pending_years == review_years \ DOMAIN years

\* lines 203-204: one iteration of the loop over the sorted years
ReviewIsaYear ==
    /\ pc = "loop"
    /\ acct_i > Len(isa)
    /\ pending_years # {}
    /\ LET year == CHOOSE y \in pending_years :
                       \A z \in pending_years : z = y \/ StrLess(y, z)
       IN  years' = years @@ (year :> review_isa_year(year, deposits_of(year)))
    /\ UNCHANGED <<accounts, txns, at_date, pc, session, isa, acct_i, deposits,
                   origin, outcome, label>>

\* line 206 and line 228: the pass returns years; its locals are gone
Return ==
    /\ pc = "loop"
    /\ acct_i > Len(isa)
    /\ pending_years = {}
    /\ pc' = "finally"
    /\ outcome' = "result"
    /\ isa' = <<>>
    /\ acct_i' = 1
    /\ deposits' = <<>>
    /\ origin' = <<>>
    /\ UNCHANGED <<accounts, txns, at_date, session, years, label>>

\* the same exception without the finally clause of lines 229-231
RaiseErrorNoFinally ==
    /\ pc \in {"accounts", "loop"}
    /\ pc' = "done"
    /\ outcome' = "error"
    /\ isa' = <<>>
    /\ acct_i' = 1
    /\ deposits' = <<>>
    /\ origin' = <<>>
    /\ years' = NoYears
    /\ UNCHANGED <<accounts, txns, at_date, session, label>>

\* lines 227-229: a call of the accounting library raises during the pass;
\* the exception leaves the try block through its finally clause
RaiseError ==
    /\ pc \in {"accounts", "loop"}
    /\ pc' = "finally"
    /\ outcome' = "error"
    /\ isa' = <<>>
    /\ acct_i' = 1
    /\ deposits' = <<>>
    /\ origin' = <<>>
    /\ years' = NoYears
    /\ UNCHANGED <<accounts, txns, at_date, session, label>>

\* line 230
SessionEnd ==
    /\ pc = "finally"
    /\ session' = [session EXCEPT !.status = "ended", !.ends = @ + 1]
    /\ pc' = "destroy"
    /\ UNCHANGED <<accounts, txns, at_date, isa, acct_i, deposits, origin,
                   years, outcome, label>>

\* line 231
SessionDestroy ==
    /\ pc = "destroy"
    /\ session' = [session EXCEPT !.status = "destroyed", !.destroys = @ + 1]
    /\ pc' = "done"
    /\ UNCHANGED <<accounts, txns, at_date, isa, acct_i, deposits, origin,
                   years, outcome, label>>

Next ==
    \/ OpenSession
    \/ OpenFails
    \/ IsaAccounts
    \/ IsaAccountDeposits
    \/ ReviewIsaYear
    \/ Return
    \/ RaiseError
    \/ SessionEnd
    \/ SessionDestroy

Spec == Init /\ [][Next]_vars

ReviewSpec == ReviewInit /\ [][Next]_vars

\* a book of at most one two-leg transaction
FileInit ==
    /\ accounts \in {AccountTree("INCOME", d) : d \in SharesDescriptions}
    /\ txns \in {b \in TwoLegBooks : Len(b) <= 1}
    /\ at_date \in TxnDates
    /\ Start

\* the interpreter runs the script until it ends
FileSpec == FileInit /\ [][Next]_vars /\ WF_vars(Next)

-----------------------------------------------------------------------------
(* tax_year on its own *)

TaxYearInit ==
    /\ accounts = AccountTree("INCOME", <<"C", "l", "o", "s", "e", "d", " ", "S", "t", "o", "c", "k", "s", " ", "&", " ", "S", "h", "a", "r", "e", "s", " ", "I", "S", "A", " ">>)
    /\ txns = <<>>
    /\ at_date \in CalendarDates(TaxYearYears)
    /\ Start
    /\ pc = "start"

TaxYear ==
    /\ pc = "start"
    /\ label' = tax_year(at_date)
    /\ pc' = "done"
    /\ UNCHANGED <<accounts, txns, at_date, session, isa, acct_i, deposits,
                   origin, years, outcome>>

TaxYearNext == TaxYear

TaxYearSpec == TaxYearInit /\ [][TaxYearNext]_vars

-----------------------------------------------------------------------------
(* Vocabulary of the properties *)

RECURSIVE SumValues(_, _)
SumValues(splits, idx) ==
    IF idx = {} THEN 0
    ELSE LET j == CHOOSE j \in idx : TRUE
         IN  splits[j].value + SumValues(splits, idx \ {j})

RECURSIVE SumAmounts(_)
SumAmounts(rows) ==
    IF rows = <<>> THEN 0 ELSE Head(rows).amount + SumAmounts(Tail(rows))

\* the splits of transaction T on account A
OnAccount(T, A) == {j \in 1..Len(T.splits) : T.splits[j].account = A}
\* the net amount T credits to A
NetCredit(T, A) == SumValues(T.splits, OnAccount(T, A))
\* the sum of the positive-valued splits of T on A
PositiveCredit(T, A) ==
    SumValues(T.splits, {j \in OnAccount(T, A) : T.splits[j].value > 0})
HasCredit(T, A) == \E j \in OnAccount(T, A) : T.splits[j].value > 0
\* the accounts other than A on which T has a negative-valued split
DebitedOutside(T, A) ==
    {T.splits[j].account :
        j \in {i \in 1..Len(T.splits) :
                  T.splits[i].account # A /\ T.splits[i].value < 0}}

RECURSIVE AccountPath(_)
AccountPath(A) ==
    IF accounts[A].parent = "none" THEN <<>>
    ELSE AccountPath(accounts[A].parent) \o <<accounts[A].name>>

RECURSIVE Ancestors(_)
Ancestors(A) ==
    IF accounts[A].parent = "none" THEN {}
    ELSE {accounts[A].parent} \cup Ancestors(accounts[A].parent)

PathString(A) == path2str(AccountPath(A))
IsaAccountsOfBook == {A \in DOMAIN accounts : is_isa_account(A)}
\* the Deposits made from transaction k for account A
DepositsFor(k, A) ==
    {i \in 1..Len(deposits) : origin[i] = k /\ deposits[i].account = PathString(A)}
AccountOfDeposit(i) ==
    CHOOSE A \in DOMAIN accounts : PathString(A) = deposits[i].account
OnOrBefore(d, cutoff) == ~DateLess(cutoff, d)
\* every call of isa_account_deposits has returned
ExtractionDone == pc = "loop" /\ acct_i > Len(isa)
Row(y, type_name) ==
    CHOOSE r \in {years[y].allowances[j] : j \in 1..Len(years[y].allowances)} :
        r.type_name = type_name

-----------------------------------------------------------------------------
(* C1 *)

\* C1 as stated: every Deposit emitted for an ISA account A comes from a
\* transaction T whose net amount on A (all its splits on A, positive and
\* negative) is positive, and which has a negative-valued split on another
\* account that is_contribution_account accepts.
C1_NetCreditPositive ==
    \A i \in 1..Len(deposits) :
        LET A == AccountOfDeposit(i)
            T == txns[origin[i]]
        IN  /\ is_isa_account(A)
            /\ NetCredit(T, A) > 0
            /\ \E B \in DebitedOutside(T, A) : is_contribution_account(B)

\* C1 as amended: every Deposit emitted for an ISA account A comes from a
\* transaction T whose positive-valued splits on A sum to a positive amount
\* (the negative-valued splits on A are not netted off), and which has a
\* negative-valued split on another account that is_contribution_account
\* accepts.
C1_PositiveCredit ==
    \A i \in 1..Len(deposits) :
        LET A == AccountOfDeposit(i)
            T == txns[origin[i]]
        IN  /\ is_isa_account(A)
            /\ PositiveCredit(T, A) > 0
            /\ \E B \in DebitedOutside(T, A) : is_contribution_account(B)

\* a Deposit was emitted from a transaction whose net amount on the account
\* is not positive
C1_Witness ==
    \E i \in 1..Len(deposits) :
        /\ NetCredit(txns[origin[i]], AccountOfDeposit(i)) <= 0
        /\ PositiveCredit(txns[origin[i]], AccountOfDeposit(i)) > 0

-----------------------------------------------------------------------------
(* C2 *)

\* C2: once the accounts have been scanned, every transaction T dated on or
\* before the cutoff with a positive-valued split on an ISA account A and a
\* negative-valued split on a contribution-source account has exactly one
\* Deposit for A, whatever the number of splits of T on A; its amount is
\* the sum of the positive-valued splits of T on A, its year is
\* tax_year(date of T) and its kind is isa_account_type(A).
C2_ExactlyOneDeposit ==
    ExtractionDone =>
        \A k \in 1..Len(txns) : \A A \in IsaAccountsOfBook :
            ( /\ OnOrBefore(txns[k].date, at_date)
              /\ HasCredit(txns[k], A)
              /\ \E B \in DebitedOutside(txns[k], A) : is_contribution_account(B) )
            => /\ Cardinality(DepositsFor(k, A)) = 1
               /\ \A i \in DepositsFor(k, A) :
                    /\ deposits[i].amount = PositiveCredit(txns[k], A)
                    /\ deposits[i].year = tax_year(txns[k].date)
                    /\ deposits[i].type = isa_account_type(A)

-----------------------------------------------------------------------------
(* C3 *)

\* C3 as stated: a transaction T with a positive-valued split on an ISA
\* account A and a negative-valued split on another ISA account B yields
\* no Deposit for A.
C3_NoDepositFromIsa ==
    \A k \in 1..Len(txns) : \A A \in IsaAccountsOfBook :
        \A B \in IsaAccountsOfBook \ {A} :
            (HasCredit(txns[k], A) /\ B \in DebitedOutside(txns[k], A))
            => DepositsFor(k, A) = {}

\* C3 as amended: a transaction T with a positive-valued split on an ISA
\* account A and a negative-valued split on another ISA account B, all of
\* whose negative-valued splits outside A are on ISA accounts, yields no
\* Deposit for A.
C3_NoDepositFromIsaOnly ==
    \A k \in 1..Len(txns) : \A A \in IsaAccountsOfBook :
        \A B \in IsaAccountsOfBook \ {A} :
            ( /\ HasCredit(txns[k], A)
              /\ B \in DebitedOutside(txns[k], A)
              /\ \A C \in DebitedOutside(txns[k], A) : is_isa_account(C) )
            => DepositsFor(k, A) = {}

\* the accounts were scanned over a transfer between ISA accounts dated on
\* or before the cutoff
C3_Witness ==
    /\ ExtractionDone
    /\ \E k \in 1..Len(txns) : \E A \in IsaAccountsOfBook :
        \E B \in IsaAccountsOfBook \ {A} :
            /\ OnOrBefore(txns[k].date, at_date)
            /\ HasCredit(txns[k], A)
            /\ B \in DebitedOutside(txns[k], A)
            /\ \A C \in DebitedOutside(txns[k], A) : is_isa_account(C)
            /\ DepositsFor(k, A) = {}

-----------------------------------------------------------------------------
(* C4 *)

IsDividendsUnder(C, A) == accounts[C].name = DIVIDENDS /\ A \in Ancestors(C)

-----------------------------------------------------------------------------
(* C5 *)

\* a transaction that credits an ISA account from the current account
CreditsFromCurrent(T, A) == HasCredit(T, A) /\ "current" \in DebitedOutside(T, A)

\* C5: the result of review_isa_accounts has no deposit row dated after the
\* cutoff, its contributions are those of its rows, and a qualifying
\* transaction dated exactly on the cutoff has its row.
C5_Cutoff ==
    outcome = "result" =>
        /\ \A y \in DOMAIN years :
            /\ \A j \in 1..Len(years[y].txns) :
                    OnOrBefore(years[y].txns[j].date, at_date)
            /\ Row(y, "Total").contributions = SumAmounts(years[y].txns)
            /\ Row(y, "Cash").contributions \in 0..SumAmounts(years[y].txns)
            /\ Row(y, "S&S").contributions \in 0..SumAmounts(years[y].txns)
        /\ \A k \in 1..Len(txns) : \A A \in IsaAccountsOfBook :
            (txns[k].date = at_date /\ CreditsFromCurrent(txns[k], A))
            => /\ tax_year(at_date) \in DOMAIN years
               /\ \E j \in 1..Len(years[tax_year(at_date)].txns) :
                    years[tax_year(at_date)].txns[j] =
                        [date |-> at_date,
                         amount |-> PositiveCredit(txns[k], A),
                         account |-> PathString(A)]

\* a result over a book with a qualifying transaction on the cutoff date
\* and another after it
C5_Witness ==
    /\ outcome = "result"
    /\ \E k1, k2 \in 1..Len(txns) : \E A1, A2 \in IsaAccountsOfBook :
        /\ txns[k1].date = at_date /\ CreditsFromCurrent(txns[k1], A1)
        /\ DateLess(at_date, txns[k2].date) /\ CreditsFromCurrent(txns[k2], A2)

-----------------------------------------------------------------------------
(* C6 *)

RECURSIVE Number(_)
Number(s) ==
    IF s = <<>> THEN 0
    ELSE 10 * Number(SubSeq(s, 1, Len(s) - 1)) + (Ord(s[Len(s)]) - Ord("0"))

StartYear(date) ==
    IF (date.month = 4 /\ date.day >= 6) \/ date.month > 4
    THEN date.year ELSE date.year - 1

\* C6: tax_year returns the 4-digit start year, "/", and the 2-digit value
\* of (start year + 1) mod 100, where the start year is the calendar year
\* from 6 April on and the year before until 5 April.
C6_TaxYear ==
    (pc = "done" /\ label # <<>>) =>
        /\ Len(label) = 7
        /\ \A i \in {1, 2, 3, 4, 6, 7} :
                \E n \in 1..Len(DigitChars) : DigitChars[n] = label[i]
        /\ label[5] = "/"
        /\ Number(SubSeq(label, 1, 4)) = StartYear(at_date)
        /\ Number(SubSeq(label, 6, 7)) = (StartYear(at_date) + 1) % 100
        /\ (at_date = Date(2024, 4, 5) => label = <<"2", "0", "2", "3", "/", "2", "4">>)
        /\ (at_date = Date(2024, 4, 6) => label = <<"2", "0", "2", "4", "/", "2", "5">>)
        /\ (StartYear(at_date) = 1999 => label = <<"1", "9", "9", "9", "/", "0", "0">>)

\* tax_year returned for the first day of a tax year
C6_Witness ==
    /\ pc = "done"
    /\ at_date = Date(2024, 4, 6)
    /\ label = <<"2", "0", "2", "4", "/", "2", "5">>

-----------------------------------------------------------------------------
(* C7 *)

-----------------------------------------------------------------------------
(* C8 *)

\* C8: when review_isa_accounts returns, the years of its result are the
\* tax years of the Deposits together with tax_year(cutoff); if no Deposit
\* is of tax_year(cutoff), that year has no row, contributions of zero and
\* a remaining amount equal to the allowance, for cash, stocks and total.
C8_Years ==
    [][(outcome = "none" /\ outcome' = "result") =>
        /\ DOMAIN years' =
              {deposits[i].year : i \in 1..Len(deposits)} \cup {tax_year(at_date)}
        /\ (\A i \in 1..Len(deposits) : deposits[i].year # tax_year(at_date))
            => LET r == years'[tax_year(at_date)]
               IN  /\ r.txns = <<>>
                   /\ Len(r.allowances) = 3
                   /\ \A j \in 1..3 :
                        /\ r.allowances[j].contributions = 0
                        /\ r.allowances[j].remaining = r.allowances[j].allowance
                        /\ r.allowances[j].allowance > 0]_vars

\* a result whose cutoff year has no deposit while another year has some
C8_Witness ==
    /\ outcome = "result"
    /\ tax_year(at_date) \in DOMAIN years
    /\ years[tax_year(at_date)].txns = <<>>
    /\ \E y \in DOMAIN years : years[y].txns # <<>>

-----------------------------------------------------------------------------
(* C9 *)

\* C9: a year of the result that the allowance table lacks is reviewed
\* with the allowances of 2024/25, the last year of the table; its rows are
\* deposits of that tax year and its contributions are those of its rows.
C9_Fallback ==
    outcome = "result" =>
        \A y \in DOMAIN years \ DOMAIN ALLOWANCES :
            /\ Row(y, "Cash").allowance = ALLOWANCES[<<"2", "0", "2", "4", "/", "2", "5">>].cash
            /\ Row(y, "S&S").allowance = ALLOWANCES[<<"2", "0", "2", "4", "/", "2", "5">>].stocks
            /\ Row(y, "Total").allowance = ALLOWANCES[<<"2", "0", "2", "4", "/", "2", "5">>].total
            /\ \A j \in 1..Len(years[y].txns) : tax_year(years[y].txns[j].date) = y
            /\ Row(y, "Total").contributions = SumAmounts(years[y].txns)
            /\ Row(y, "Total").remaining =
                  Row(y, "Total").allowance - SumAmounts(years[y].txns)

\* a result with deposits in a year the table lacks
C9_Witness ==
    /\ outcome = "result"
    /\ \E y \in DOMAIN years \ DOMAIN ALLOWANCES : years[y].txns # <<>>

-----------------------------------------------------------------------------
(* C10 *)

====
